---- MODULE Spec2Model ----
(***************************************************************************)
(* Membership expiry tracker of src/main.py: the members table, the        *)
(* expulsions log, bot_status, the webhook's worker threads running        *)
(* handle_chat_member_update, the periodic thread auto_check_members and   *)
(* the /check_members request threads running check_old_members_async and  *)
(* expel_old_user, and the threads of the /start command and of the        *)
(* /setup_webhook request.  Threads interleave at reads of the clock, at   *)
(* database statements and commits, at platform calls (awaits), at tests   *)
(* of stop_auto_check and at every read and write of bot_status.           *)
(***************************************************************************)
EXTENDS Integers, Sequences, FiniteSets, TLC

VARIABLES now, members, expulsions, bot_status, workers, sw, used, ghost,
          admin_msgs, stop_auto_check

vars == <<now, members, expulsions, bot_status, workers, sw, used, ghost,
          admin_msgs, stop_auto_check>>

----------------------------------------------------------------------------
(* Bounds of the model *)

MaxTime == 2
NumKeys == 2
MaxWorkers == 1
NumManual == 1
MaxErrors == 1
MaxEvents == 2
MaxSweeps == 1
MaxRestarts == 1

(* Program constants (environment variables with small values) *)

TIME_LIMIT_SECONDS == 1
CHECK_INTERVAL_SECONDS == 1
ADMIN_CHAT_ID == 1

\* None, for the instants of bot_status
NONE == -1

(* The slice of bot_status["errors"] that /status returns *)

ERRORS_SHOWN == 10

KeyList == << <<1, 9>>, <<1, 10>>, <<2, 9>>, <<2, 10>> >>

Keys == { KeyList[i] : i \in 1..NumKeys }

Statuses == {"unknown", "left", "kicked", "member", "restricted",
             "administrator", "creator"}

AUTO == 0

Sweepers == 0..NumManual

\* handler threads; a run keeps MaxWorkers of them alive at a time, or one
\* more where events overlap
WorkerIds == 1..MaxWorkers + 1

\* the thread process_command that webhook() starts for a /start message
CmdThread == 0

\* the request thread of GET /setup_webhook
SetupThread == -1

\* the request thread of a POST /webhook whose body or thread start raises
HookThread == -2

ThreadIds == {HookThread, SetupThread, CmdThread} \cup WorkerIds

\* the users that write /start to the bot: the admin and somebody else
UserIds == {ADMIN_CHAT_ID, ADMIN_CHAT_ID + 1}

----------------------------------------------------------------------------
(* The store: two tables of members.db *)

Row(u, c, j) == [user_id |-> u, chat_id |-> c, join_date |-> j]

\* the rows of tbl whose key is not (u, c), in rowid order
RECURSIVE WithoutKey(_, _, _)
WithoutKey(s, u, c) ==
    IF s = << >> THEN << >>
    ELSE IF Head(s).user_id = u /\ Head(s).chat_id = c
         THEN WithoutKey(Tail(s), u, c)
         ELSE <<Head(s)>> \o WithoutKey(Tail(s), u, c)

\* a DELETE that leaves chat_id out of its WHERE clause
DeleteByUser(tbl, u, c) == SelectSeq(tbl, LAMBDA r : r.user_id # u)

(* DELETE FROM members WHERE user_id = ? AND chat_id = ? *)
DeleteMember(tbl, u, c) == WithoutKey(tbl, u, c)

(* cursor.rowcount of that DELETE *)
DeletedRows(tbl, u, c) == Len(tbl) - Len(DeleteMember(tbl, u, c))

\* a table without its PRIMARY KEY: a plain INSERT
InsertNoReplace(tbl, u, c, j) == Append(tbl, Row(u, c, j))

\* INSERT OR IGNORE: the row of an earlier JOIN wins
InsertOrIgnore(tbl, u, c, j) ==
    IF \E i \in 1..Len(tbl) : tbl[i].user_id = u /\ tbl[i].chat_id = c
    THEN tbl ELSE Append(tbl, Row(u, c, j))

(* INSERT OR REPLACE INTO members: the PRIMARY KEY (user_id, chat_id)
   conflict removes the old row, the new row gets a fresh rowid *)
InsertOrReplace(tbl, u, c, j) == Append(DeleteMember(tbl, u, c), Row(u, c, j))

\* the new record takes the place of the oldest one
InsertExpulsionFirst(log, u, c, d, t) ==
    << [user_id |-> u, chat_id |-> c, expelled_date |-> d,
        time_in_group_seconds |-> t] >> \o (IF log = << >> THEN log ELSE Tail(log))

(* INSERT INTO expulsions *)
InsertExpulsion(log, u, c, d, t) ==
    Append(log, [user_id |-> u, chat_id |-> c, expelled_date |-> d,
                 time_in_group_seconds |-> t])

RowsOf(tbl, u, c) ==
    { i \in 1..Len(tbl) : tbl[i].user_id = u /\ tbl[i].chat_id = c }

HasRow(tbl, k) == RowsOf(tbl, k[1], k[2]) # {}

\* SELECT COUNT of members, as get_stats()["total_members"]
TotalMembers(tbl) == Len(tbl)

\* a notification goes out whatever admin_notified says
NotifyAlways(st) == TRUE

\* if bot_status["admin_notified"]:
NotifyAdmin(st) == st.admin_notified

AppendError(st, msg) == [st EXCEPT !.errors = Append(@, msg)]

CanFail == Len(bot_status.errors) < MaxErrors

\* status(): bot_status["errors"][-10:]
StatusErrors(st) ==
    IF Len(st.errors) <= ERRORS_SHOWN THEN st.errors
    ELSE SubSeq(st.errors, Len(st.errors) - ERRORS_SHOWN + 1, Len(st.errors))

----------------------------------------------------------------------------
(* handle_chat_member_update: classification of a status transition *)

\* every transition into "member" counts as a join
IsNewMemberAnyOld(old, new) == new = "member"

\* old_status is "unknown" when the update carries no old_chat_member
IsNewMember(old, new) ==
    \/ old \in {"left", "kicked", "unknown"} /\ new = "member"
    \/ old = "left" /\ new = "member"
    \/ old = "unknown" /\ new = "member"

IsLeave(old, new) == old = "member" /\ new \in {"left", "kicked"}

Classify(old, new) ==
    IF IsNewMember(old, new) THEN "JOIN"
    ELSE IF IsLeave(old, new) THEN "LEAVE"
    ELSE "IGNORED"

----------------------------------------------------------------------------
(* Threads *)

\* a handler thread: jd is its local join_date, n the total_members that
\* its get_stats() call returned
FreeWorker == [pc |-> "free", key |-> <<0, 0>>, kind |-> "IGNORED",
               jd |-> 0, n |-> 0]

\* one expel_old_user call: its arguments, its local expelled_date, the
\* value it read of total_expelled, what it returned; banned holds while
\* ban_chat_member of this call has succeeded and unban_chat_member has not;
\* dup and norow record what the call met: a record of the same stay already
\* in the log, no row left to delete; notif tells how its send_message to
\* the admin ended
NoCall == [key |-> <<0, 0>>, joined |-> 0, dwell |-> 0, date |-> 0, tmp |-> 0,
           banned |-> FALSE, dup |-> FALSE, norow |-> FALSE, notif |-> "none",
           ret |-> "none"]

\* a sweeping thread: todo are the overdue rows of its SELECT not yet handed
\* to expel_old_user, nover their number at the SELECT, tried and failed
\* count the calls of this sweep, t0 and nrows are its locals now and
\* len(rows), nc is the local next_check_time of auto_check_members and
\* wake the instant its wait times out.  The thread auto_check_members
\* begins at its first statement; a /check_members thread exists only while
\* its sweep runs
IdleSweep(s) ==
    [pc |-> IF s = AUTO THEN "begin" ELSE "idle", todo |-> << >>,
     wake |-> 0, nc |-> 0, t0 |-> 0, nrows |-> 0,
     nover |-> 0, tried |-> 0, failed |-> 0, call |-> NoCall]

Min(a, b) == IF a <= b THEN a ELSE b

\* bot_status as the module creates it
InitStatus == [members_count |-> 0, total_expelled |-> 0, errors |-> << >>,
               admin_notified |-> FALSE, auto_check_running |-> FALSE,
               last_check |-> NONE, next_check |-> NONE]

\* next_check_time = now() + timedelta(seconds=CHECK_INTERVAL_SECONDS);
\* the clock of the model stops at MaxTime
NextCheckTime(t) == Min(t + CHECK_INTERVAL_SECONDS, MaxTime)

\* setup_webhook(): bot.get_me() or bot.set_webhook() raising leaves
\* "Error webhook: ..." in bot_status["errors"]
SetupWebhook(st, ok) == IF ok THEN st ELSE AppendError(st, "Error webhook")

\* bot_status of __main__ once setup_webhook() has returned and the thread
\* auto_check_members is started
StartedStatus(ok) == SetupWebhook(InitStatus, ok)

\* admin_msgs: the messages delivered to the chat ADMIN_CHAT_ID
Init ==
    /\ now = 0
    /\ members = << >>
    /\ expulsions = << >>
    /\ \E ok \in BOOLEAN : bot_status = StartedStatus(ok)
    /\ workers = [w \in ThreadIds |-> FreeWorker]
    /\ sw = [s \in Sweepers |-> IdleSweep(s)]
    /\ used = [events |-> 0, sweeps |-> 0, restarts |-> 0]
    /\ admin_msgs = << >>
    /\ stop_auto_check = FALSE
    /\ ghost = [last |-> [k \in Keys |-> "none"],
                recv |-> [k \in Keys |-> "none"],
                hist |-> << >>,
                failed |-> {}]

\* app.run has not been interrupted: requests are served
Serving == ~stop_auto_check

\* The wall clock; it stops at MaxTime, which stands for every later instant
Tick ==
    /\ now < MaxTime
    /\ now' = now + 1
    /\ UNCHANGED <<members, expulsions, bot_status, workers, sw, ghost, used,
                   admin_msgs, stop_auto_check>>

----------------------------------------------------------------------------
(* webhook and handle_chat_member_update *)

LowestFree(nWorkers) ==
    CHOOSE w \in 1..nWorkers :
       /\ workers[w].pc = "free"
       /\ \A v \in 1..nWorkers : workers[v].pc = "free" => w <= v

\* webhook(): one thread per chat_member update, while fewer than nWorkers
\* handlers are alive; recv keeps the class of the last JOIN or LEAVE
\* received for the key
WebhookB(k, old, new, maxEvents, nWorkers) ==
    /\ Serving
    /\ \E w \in 1..nWorkers : workers[w].pc = "free"
    /\ used.events < maxEvents
    /\ used' = [used EXCEPT !.events = @ + 1]
    /\ workers' = [workers EXCEPT ![LowestFree(nWorkers)] =
                      [FreeWorker EXCEPT !.pc = "start", !.key = k,
                                         !.kind = Classify(old, new)]]
    /\ ghost' = [ghost EXCEPT !.recv[k] =
                    IF Classify(old, new) = "IGNORED" THEN @ ELSE Classify(old, new)]
    /\ UNCHANGED <<now, members, expulsions, bot_status, sw, admin_msgs,
                   stop_auto_check>>

Webhook(k, old, new, maxEvents) == WebhookB(k, old, new, maxEvents, MaxWorkers)

\* webhook(): the server hands a request to the route while it serves; this
\* one is going to raise in get_json, Update.de_json or thread.start
WebhookEnter(maxEvents) ==
    /\ Serving
    /\ workers[HookThread].pc = "free"
    /\ used.events < maxEvents
    /\ used' = [used EXCEPT !.events = @ + 1]
    /\ workers' = [workers EXCEPT ![HookThread] =
                      [FreeWorker EXCEPT !.pc = "hook"]]
    /\ UNCHANGED <<now, members, expulsions, bot_status, sw, ghost,
                   admin_msgs, stop_auto_check>>

\* webhook(): the call has raised: except Exception appends the error and
\* answers 500, no handler runs; the request thread does not look at
\* stop_auto_check
WebhookError ==
    /\ workers[HookThread].pc = "hook"
    /\ CanFail
    /\ bot_status' = AppendError(bot_status, "Error procesando webhook")
    /\ workers' = [workers EXCEPT ![HookThread] = FreeWorker]
    /\ UNCHANGED <<now, members, expulsions, sw, ghost, used, admin_msgs,
                   stop_auto_check>>

\* is_new_member: join_date = datetime.now(utc)
HandleJoinClock(w) ==
    /\ workers[w].pc = "start" /\ workers[w].kind = "JOIN"
    /\ workers' = [workers EXCEPT ![w].pc = "upsert", ![w].jd = now]
    /\ UNCHANGED <<now, members, expulsions, bot_status, sw, ghost, used,
                   admin_msgs, stop_auto_check>>

\* INSERT OR REPLACE with the join_date read before, commit
HandleJoin(w) ==
    /\ workers[w].pc = "upsert"
    /\ LET k == workers[w].key IN
         /\ members' = InsertOrReplace(members, k[1], k[2], workers[w].jd)
         /\ ghost' = [ghost EXCEPT !.last[k] =
                         IF HasRow(members, k) THEN "REJOIN" ELSE "JOIN"]
    /\ workers' = [workers EXCEPT ![w].pc = "count"]
    /\ UNCHANGED <<now, expulsions, bot_status, sw, used, admin_msgs, stop_auto_check>>

\* old_status == "member" and new_status in ["left", "kicked"]: DELETE, commit
HandleLeave(w) ==
    /\ workers[w].pc = "start" /\ workers[w].kind = "LEAVE"
    /\ LET k == workers[w].key IN
         /\ members' = DeleteMember(members, k[1], k[2])
         /\ ghost' = [ghost EXCEPT !.last[k] =
                         IF HasRow(members, k) THEN "LEAVE" ELSE "LEAVE_NOOP"]
         /\ workers' = [workers EXCEPT ![w] =
                IF DeletedRows(members, k[1], k[2]) > 0
                THEN [@ EXCEPT !.pc = "count"] ELSE FreeWorker]
    /\ UNCHANGED <<now, expulsions, bot_status, sw, used, admin_msgs, stop_auto_check>>

\* any other transition: logged only
HandleIgnored(w) ==
    /\ workers[w].pc = "start" /\ workers[w].kind = "IGNORED"
    /\ workers' = [workers EXCEPT ![w] = FreeWorker]
    /\ UNCHANGED <<now, members, expulsions, bot_status, sw, ghost, used, admin_msgs, stop_auto_check>>

\* the handler is at the store access of its JOIN or LEAVE branch
AtStore(w) ==
    \/ workers[w].pc = "upsert"
    \/ workers[w].pc = "start" /\ workers[w].kind = "LEAVE"

\* the exception comes after the statement of the branch has taken effect
HandleStoreErrorLate(w, maxErrors) ==
    /\ AtStore(w)
    /\ Len(bot_status.errors) < maxErrors
    /\ members' = IF workers[w].kind = "JOIN"
                  THEN InsertOrReplace(members, workers[w].key[1], workers[w].key[2],
                                       workers[w].jd)
                  ELSE DeleteMember(members, workers[w].key[1], workers[w].key[2])
    /\ bot_status' = AppendError(bot_status, "Error en handle_chat_member_update")
    /\ workers' = [workers EXCEPT ![w] = FreeWorker]
    /\ UNCHANGED <<now, expulsions, sw, ghost, used, admin_msgs, stop_auto_check>>

\* the store raises in the JOIN or LEAVE branch: except Exception;
\* maxErrors bounds the failures of one run
HandleStoreErrorB(w, maxErrors) ==
    /\ AtStore(w)
    /\ Len(bot_status.errors) < maxErrors
    /\ bot_status' = AppendError(bot_status, "Error en handle_chat_member_update")
    /\ workers' = [workers EXCEPT ![w] = FreeWorker]
    /\ UNCHANGED <<now, members, expulsions, sw, ghost, used, admin_msgs, stop_auto_check>>

HandleStoreError(w) == HandleStoreErrorB(w, MaxErrors)

\* get_stats()["total_members"]: a connection of its own and SELECT COUNT;
\* get_stats returns 0 when its read of the store raises, which the model
\* lets happen while the run has a failure left
HandleStats(w, ok) ==
    /\ workers[w].pc = "count"
    /\ ok \/ CanFail
    /\ workers' = [workers EXCEPT ![w].pc = "setcount",
                                  ![w].n = IF ok THEN TotalMembers(members) ELSE 0]
    /\ UNCHANGED <<now, members, expulsions, bot_status, sw, ghost, used,
                   admin_msgs, stop_auto_check>>

\* bot_status["members_count"] = the value get_stats returned; the LEAVE
\* branch ends here, the is_new_member branch goes on to its log lines
HandleCount(w) ==
    /\ workers[w].pc = "setcount"
    /\ bot_status' = [bot_status EXCEPT !.members_count = workers[w].n]
    /\ workers' = [workers EXCEPT ![w] =
                      IF workers[w].kind = "JOIN"
                      THEN [@ EXCEPT !.pc = "ifnotify"] ELSE FreeWorker]
    /\ UNCHANGED <<now, members, expulsions, sw, ghost, used, admin_msgs, stop_auto_check>>

\* if bot_status["admin_notified"]: read after the log lines of the branch
HandleNotifyTest(w) ==
    /\ workers[w].pc = "ifnotify"
    /\ workers' = [workers EXCEPT ![w] =
                      IF NotifyAdmin(bot_status)
                      THEN [@ EXCEPT !.pc = "notify"] ELSE FreeWorker]
    /\ UNCHANGED <<now, members, expulsions, bot_status, sw, ghost, used,
                   admin_msgs, stop_auto_check>>

\* await bot.send_message(chat_id=ADMIN_CHAT_ID, ...); a failure is logged
HandleNotify(w, ok) ==
    /\ workers[w].pc = "notify"
    /\ admin_msgs' = IF ok THEN Append(admin_msgs, [kind |-> "join", key |-> workers[w].key])
                          ELSE admin_msgs
    /\ workers' = [workers EXCEPT ![w] = FreeWorker]
    /\ UNCHANGED <<now, members, expulsions, bot_status, sw, ghost, used,
                   stop_auto_check>>

\* webhook(): an update with the message /start of user uid: the thread
\* process_command is started and the request answered
WebhookCommand(uid) ==
    /\ Serving
    /\ workers[CmdThread].pc = "free"
    /\ workers' = [workers EXCEPT ![CmdThread] =
                      [FreeWorker EXCEPT !.pc = "command", !.kind = "START",
                                         !.key = <<uid, 0>>]]
    /\ UNCHANGED <<now, members, expulsions, bot_status, sw, ghost, used,
                   admin_msgs, stop_auto_check>>

\* start_command, run by that thread whatever has become of app.run: the
\* admin arms the notifications, anyone else gets a reply
StartCommand(uid) ==
    /\ workers[CmdThread].pc = "command"
    /\ workers[CmdThread].key[1] = uid
    /\ bot_status' = [bot_status EXCEPT !.admin_notified =
                         IF uid = ADMIN_CHAT_ID THEN TRUE ELSE @]
    /\ workers' = [workers EXCEPT ![CmdThread] = FreeWorker]
    /\ UNCHANGED <<now, members, expulsions, sw, ghost, used, admin_msgs, stop_auto_check>>

\* GET /setup_webhook is accepted: setup_webhook_route calls setup_webhook()
SetupWebhookRequest ==
    /\ Serving
    /\ workers[SetupThread].pc = "free"
    /\ workers' = [workers EXCEPT ![SetupThread] =
                      [FreeWorker EXCEPT !.pc = "setup", !.kind = "SETUP"]]
    /\ UNCHANGED <<now, members, expulsions, bot_status, sw, ghost, used,
                   admin_msgs, stop_auto_check>>

\* setup_webhook() of that request, in the thread run_async starts and
\* joins: get_me and set_webhook return, or one of them raises
SetupWebhookRoute(ok) ==
    /\ workers[SetupThread].pc = "setup"
    /\ ok \/ CanFail
    /\ bot_status' = SetupWebhook(bot_status, ok)
    /\ workers' = [workers EXCEPT ![SetupThread] = FreeWorker]
    /\ UNCHANGED <<now, members, expulsions, sw, ghost, used, admin_msgs, stop_auto_check>>

HandlerB(w, maxErrors) ==
    \/ HandleJoinClock(w)
    \/ HandleJoin(w)
    \/ HandleLeave(w)
    \/ HandleIgnored(w)
    \/ HandleStoreErrorB(w, maxErrors)
    \/ \E ok \in BOOLEAN : HandleStats(w, ok)
    \/ HandleCount(w)
    \/ HandleNotifyTest(w)

Handler(w) == HandlerB(w, MaxErrors)

----------------------------------------------------------------------------
(* check_old_members_async and expel_old_user *)

\* the for loop's test: seconds_in_group >= TIME_LIMIT_SECONDS
IsOverdue(r, t) == t - r.join_date >= TIME_LIMIT_SECONDS

\* the rows of one SELECT that the loop hands to expel_old_user, in order,
\* each with seconds_in_group = now - joined
RECURSIVE Overdue(_, _)
Overdue(rows, t) ==
    IF rows = << >> THEN << >>
    ELSE IF IsOverdue(Head(rows), t)
         THEN << [key |-> <<Head(rows).user_id, Head(rows).chat_id>>,
                  joined |-> Head(rows).join_date,
                  dwell |-> t - Head(rows).join_date] >>
              \o Overdue(Tail(rows), t)
         ELSE Overdue(Tail(rows), t)

\* the loop of auto_check_members never looks at the event
LoopIgnoresStop == TRUE

\* while not stop_auto_check.is_set(), and wait(...) returning False
LoopGoesOn == ~stop_auto_check

\* except KeyboardInterrupt: stop_auto_check.set()
StopSignal ==
    /\ ~stop_auto_check
    /\ stop_auto_check' = TRUE
    /\ UNCHANGED <<now, members, expulsions, bot_status, workers, sw, ghost, used,
                   admin_msgs>>

\* bot_status["auto_check_running"] = True, the first write of the thread
AutoBegin ==
    /\ sw[AUTO].pc = "begin"
    /\ sw' = [sw EXCEPT ![AUTO].pc = "top"]
    /\ bot_status' = [bot_status EXCEPT !.auto_check_running = TRUE]
    /\ UNCHANGED <<now, members, expulsions, workers, ghost, used, admin_msgs,
                   stop_auto_check>>

\* while not stop_auto_check.is_set(): the test lets the thread in
AutoLoopTest ==
    /\ sw[AUTO].pc = "top"
    /\ LoopGoesOn
    /\ sw' = [sw EXCEPT ![AUTO].pc = "clock"]
    /\ UNCHANGED <<now, members, expulsions, bot_status, workers, ghost, used,
                   admin_msgs, stop_auto_check>>

\* next_check_time = datetime.now() + timedelta(seconds=CHECK_INTERVAL_SECONDS)
AutoNextClock ==
    /\ sw[AUTO].pc = "clock"
    /\ sw' = [sw EXCEPT ![AUTO].pc = "setnext", ![AUTO].nc = NextCheckTime(now)]
    /\ UNCHANGED <<now, members, expulsions, bot_status, workers, ghost, used,
                   admin_msgs, stop_auto_check>>

\* bot_status["next_check"] = next_check_time.isoformat(), and the thread
\* enters stop_auto_check.wait(CHECK_INTERVAL_SECONDS)
AutoNextCheck ==
    /\ sw[AUTO].pc = "setnext"
    /\ bot_status' = [bot_status EXCEPT !.next_check = sw[AUTO].nc]
    /\ sw' = [sw EXCEPT ![AUTO].pc = "wait",
                        ![AUTO].wake = Min(now + CHECK_INTERVAL_SECONDS, MaxTime)]
    /\ UNCHANGED <<now, members, expulsions, workers, ghost, used, admin_msgs,
                   stop_auto_check>>

\* the wait returns True, or the loop test fails after a cycle: the thread
\* leaves the loop, clears auto_check_running and ends
AutoStop ==
    /\ sw[AUTO].pc \in {"top", "wait"}
    /\ ~LoopGoesOn
    /\ sw' = [sw EXCEPT ![AUTO].pc = "done"]
    /\ bot_status' = [bot_status EXCEPT !.auto_check_running = FALSE]
    /\ UNCHANGED <<now, members, expulsions, workers, ghost, used, admin_msgs,
                   stop_auto_check>>

\* stop_auto_check.wait(CHECK_INTERVAL_SECONDS) times out
AutoWake(maxSweeps) ==
    /\ sw[AUTO].pc = "wait"
    /\ LoopGoesOn
    /\ now >= sw[AUTO].wake
    /\ used.sweeps < maxSweeps
    /\ used' = [used EXCEPT !.sweeps = @ + 1]
    /\ sw' = [sw EXCEPT ![AUTO].pc = "read"]
    /\ UNCHANGED <<now, members, expulsions, bot_status, workers, ghost, admin_msgs, stop_auto_check>>

\* check_members_route: check_old_members() in a thread of its own
ManualTrigger(s, maxSweeps) ==
    /\ Serving
    /\ s # AUTO
    /\ sw[s].pc = "idle"
    /\ used.sweeps < maxSweeps
    /\ used' = [used EXCEPT !.sweeps = @ + 1]
    /\ sw' = [sw EXCEPT ![s].pc = "read"]
    /\ UNCHANGED <<now, members, expulsions, bot_status, workers, ghost, admin_msgs, stop_auto_check>>

\* now = datetime.now(utc), the first statement of check_old_members_async
SweepNow(s) ==
    /\ sw[s].pc = "read"
    /\ sw' = [sw EXCEPT ![s].pc = "select", ![s].t0 = now]
    /\ UNCHANGED <<now, members, expulsions, bot_status, workers, ghost, used,
                   admin_msgs, stop_auto_check>>

\* connect; SELECT ... FROM members; rows = fetchall(); close.  The loop
\* measures every row against the now read before
SweepSelect(s) ==
    /\ sw[s].pc = "select"
    /\ sw' = [sw EXCEPT ![s].pc = "status",
                        ![s].nrows = Len(members),
                        ![s].todo = Overdue(members, sw[s].t0),
                        ![s].nover = Len(Overdue(members, sw[s].t0))]
    /\ UNCHANGED <<now, members, expulsions, bot_status, workers, ghost, used,
                   admin_msgs, stop_auto_check>>

\* bot_status["last_check"] = now.isoformat(), with the local now
SweepLastCheck(s) ==
    /\ sw[s].pc = "status"
    /\ sw' = [sw EXCEPT ![s].pc = "rows"]
    /\ bot_status' = [bot_status EXCEPT !.last_check = sw[s].t0]
    /\ UNCHANGED <<now, members, expulsions, workers, ghost, used, admin_msgs, stop_auto_check>>

\* members_count is left as it was
RowsStatusKept(st, n) == st

\* bot_status["members_count"] = len(rows)
RowsStatus(st, n) == [st EXCEPT !.members_count = n]

\* the second write into bot_status that follows the SELECT, with the
\* local rows
SweepCount(s) ==
    /\ sw[s].pc = "rows"
    /\ sw' = [sw EXCEPT ![s].pc = "loop"]
    /\ bot_status' = RowsStatus(bot_status, sw[s].nrows)
    /\ UNCHANGED <<now, members, expulsions, workers, ghost, used, admin_msgs, stop_auto_check>>

\* an error inside a cycle ends the thread
EndedThread(s) == [IdleSweep(s) EXCEPT !.pc = "done"]

\* the thread once check_old_members_async has returned: auto_check_members
\* is back at the test of its while loop, a /check_members thread is over
AfterSweep(s) == [IdleSweep(s) EXCEPT !.pc = IF s = AUTO THEN "top" ELSE "idle"]

\* the connect or the SELECT raises: except Exception in
\* check_old_members_async appends the error and the coroutine returns
SweepReadFail(s) ==
    /\ sw[s].pc = "select"
    /\ CanFail
    /\ bot_status' = AppendError(bot_status, "Error verificacion")
    /\ sw' = [sw EXCEPT ![s] = AfterSweep(s)]
    /\ UNCHANGED <<now, members, expulsions, workers, ghost, used, admin_msgs, stop_auto_check>>

\* the try body of auto_check_members raises outside check_old_members_async
\* (asyncio.new_event_loop): except Exception appends the error and the
\* thread is back at the test of its while loop
AutoCycleFail ==
    /\ sw[AUTO].pc = "read"
    /\ CanFail
    /\ bot_status' = AppendError(bot_status, "Error auto-verificacion")
    /\ sw' = [sw EXCEPT ![AUTO] = AfterSweep(AUTO)]
    /\ UNCHANGED <<now, members, expulsions, workers, ghost, used, admin_msgs, stop_auto_check>>

\* the ExpulsionRecords of one stay: the key and the join_date of its row
RecordsOf(k, j) ==
    { i \in 1..Len(expulsions) : /\ expulsions[i].user_id = k[1]
                                 /\ expulsions[i].chat_id = k[2]
                                 /\ ghost.hist[i].joined = j }

\* the loop reaches the next overdue row: await expel_old_user(...)
SweepCall(s) ==
    /\ sw[s].pc = "loop"
    /\ sw[s].todo # << >>
    /\ LET r == Head(sw[s].todo) IN
       sw' = [sw EXCEPT ![s].pc = "e_platform",
                        ![s].todo = Tail(@),
                        ![s].tried = @ + 1,
                        ![s].call = [NoCall EXCEPT
                            !.key = r.key, !.joined = r.joined, !.dwell = r.dwell,
                            !.dup = RecordsOf(r.key, r.joined) # {}]]
    /\ UNCHANGED <<now, members, expulsions, bot_status, workers, ghost, used, admin_msgs, stop_auto_check>>

\* the loop is over: check_old_members_async returns
SweepEnd(s) ==
    /\ sw[s].pc = "loop"
    /\ sw[s].todo = << >>
    /\ sw' = [sw EXCEPT ![s] = AfterSweep(s)]
    /\ UNCHANGED <<now, members, expulsions, bot_status, workers, ghost, used,
                   admin_msgs, stop_auto_check>>

\* a failure of expel_old_user that ends the loop
RestAbortOnFailure(s, ok) == IF ok THEN sw[s].todo ELSE << >>

\* the rows the loop still goes through once expel_old_user has returned:
\* expel_old_user catches every exception, so a failure ends only that call
RestAfterReturn(s, ok) == sw[s].todo

ExpelReturn(s, ok) ==
    [sw EXCEPT ![s].pc = "loop",
               ![s].call.ret = IF ok THEN "ok" ELSE "fail",
               ![s].failed = IF ok THEN @ ELSE @ + 1,
               ![s].todo = RestAfterReturn(s, ok)]

\* what await bot.get_chat_member(chat_id, bot.id) yields: the right to
\* restrict is missing, it is there, or the call raises
PreCheckOutcomes == {"cannot", "can", "raises"}

\* the permission pre-check: "cannot" returns False; an exception of
\* get_chat_member is only logged and the call goes on like "can"
ExpelPreCheck(s, outcome) ==
    /\ sw[s].pc = "e_platform"
    /\ sw' = IF outcome = "cannot" THEN ExpelReturn(s, FALSE)
             ELSE [sw EXCEPT ![s].pc = "e_ban"]
    /\ UNCHANGED <<now, members, expulsions, bot_status, workers, ghost, used,
                   admin_msgs, stop_auto_check>>

\* an awaited platform call of expel_old_user raises: except Exception
ExpelRaises(s, banned) ==
    /\ CanFail
    /\ sw' = [ExpelReturn(s, FALSE) EXCEPT ![s].call.banned = banned]
    /\ bot_status' = AppendError(bot_status, "Error expulsando")
    /\ ghost' = [ghost EXCEPT !.failed = @ \cup
                     {[key |-> sw[s].call.key, joined |-> sw[s].call.joined]}]

\* await bot.ban_chat_member(chat_id, user_id)
ExpelBan(s, ok) ==
    /\ sw[s].pc = "e_ban"
    /\ IF ok THEN /\ sw' = [sw EXCEPT ![s].pc = "e_unban", ![s].call.banned = TRUE]
                  /\ UNCHANGED <<bot_status, ghost>>
             ELSE ExpelRaises(s, FALSE)
    /\ UNCHANGED <<now, members, expulsions, workers, used, admin_msgs, stop_auto_check>>

\* await bot.unban_chat_member(chat_id, user_id)
ExpelUnban(s, ok) ==
    /\ sw[s].pc = "e_unban"
    /\ IF ok THEN /\ sw' = [sw EXCEPT ![s].pc = "e_clock", ![s].call.banned = FALSE]
                  /\ UNCHANGED <<bot_status, ghost>>
             ELSE ExpelRaises(s, TRUE)
    /\ UNCHANGED <<now, members, expulsions, workers, used, admin_msgs, stop_auto_check>>

\* expelled_date = datetime.now(utc).isoformat()
ExpelClock(s) ==
    /\ sw[s].pc = "e_clock"
    /\ sw' = [sw EXCEPT ![s].pc = "e_db", ![s].call.date = now]
    /\ UNCHANGED <<now, members, expulsions, bot_status, workers, ghost, used,
                   admin_msgs, stop_auto_check>>

\* connect; DELETE FROM members; INSERT INTO expulsions with the
\* expelled_date read before; commit
ExpelDb(s) ==
    /\ sw[s].pc = "e_db"
    /\ LET c == sw[s].call IN
         /\ members' = DeleteMember(members, c.key[1], c.key[2])
         /\ expulsions' = InsertExpulsion(expulsions, c.key[1], c.key[2], c.date, c.dwell)
         /\ ghost' = [ghost EXCEPT !.last[c.key] = "EXPELLED",
                                   !.hist = Append(@, [joined |-> c.joined, dup |-> c.dup])]
         /\ sw' = [sw EXCEPT ![s].pc = "e_rd",
                             ![s].call.norow = ~HasRow(members, c.key)]
    /\ UNCHANGED <<now, bot_status, workers, used, admin_msgs, stop_auto_check>>

\* the DELETE is committed on its own and the INSERT raises
ExpelDbFailAfterDelete(s) ==
    /\ sw[s].pc = "e_db"
    /\ CanFail
    /\ members' = DeleteMember(members, sw[s].call.key[1], sw[s].call.key[2])
    /\ sw' = ExpelReturn(s, FALSE)
    /\ bot_status' = AppendError(bot_status, "Error expulsando")
    /\ UNCHANGED <<now, expulsions, workers, ghost, used, admin_msgs, stop_auto_check>>

\* the store raises before the commit: except Exception in expel_old_user
ExpelDbFail(s) ==
    /\ sw[s].pc = "e_db"
    /\ CanFail
    /\ sw' = ExpelReturn(s, FALSE)
    /\ bot_status' = AppendError(bot_status, "Error expulsando")
    /\ UNCHANGED <<now, members, expulsions, workers, ghost, used, admin_msgs, stop_auto_check>>

\* bot_status["total_expelled"] += 1: the read
ExpelCountRead(s) ==
    /\ sw[s].pc = "e_rd"
    /\ sw' = [sw EXCEPT ![s].pc = "e_wr", ![s].call.tmp = bot_status.total_expelled]
    /\ UNCHANGED <<now, members, expulsions, bot_status, workers, ghost, used, admin_msgs, stop_auto_check>>

\* bot_status["total_expelled"] += 1: the store
ExpelCountWrite(s) ==
    /\ sw[s].pc = "e_wr"
    /\ bot_status' = [bot_status EXCEPT !.total_expelled = sw[s].call.tmp + 1]
    /\ sw' = [sw EXCEPT ![s].pc = "e_if"]
    /\ UNCHANGED <<now, members, expulsions, workers, ghost, used, admin_msgs, stop_auto_check>>

\* if bot_status["admin_notified"]: notify, else return True
ExpelNotifyTest(s) ==
    /\ sw[s].pc = "e_if"
    /\ sw' = IF NotifyAdmin(bot_status)
             THEN [sw EXCEPT ![s].pc = "e_notify"]
             ELSE ExpelReturn(s, TRUE)
    /\ UNCHANGED <<now, members, expulsions, bot_status, workers, ghost, used,
                   admin_msgs, stop_auto_check>>

\* the exception of send_message reaches the outer except
ExpelNotifyRaises(s, ok) ==
    /\ sw[s].pc = "e_notify"
    /\ admin_msgs' = IF ok THEN Append(admin_msgs, [kind |-> "expel", key |-> sw[s].call.key])
                          ELSE admin_msgs
    /\ sw' = [ExpelReturn(s, ok) EXCEPT
                 ![s].call.notif = IF ok THEN "sent" ELSE "failed"]
    /\ bot_status' = IF ok THEN bot_status
                          ELSE AppendError(bot_status, "Error expulsando")
    /\ UNCHANGED <<now, members, expulsions, workers, ghost, used, stop_auto_check>>

\* await bot.send_message(chat_id=ADMIN_CHAT_ID, ...); a failure is logged;
\* return True
ExpelNotify(s, ok) ==
    /\ sw[s].pc = "e_notify"
    /\ admin_msgs' = IF ok THEN Append(admin_msgs, [kind |-> "expel", key |-> sw[s].call.key])
                          ELSE admin_msgs
    /\ sw' = [ExpelReturn(s, TRUE) EXCEPT
                 ![s].call.notif = IF ok THEN "sent" ELSE "failed"]
    /\ UNCHANGED <<now, members, expulsions, bot_status, workers, ghost, used,
                   stop_auto_check>>

\* the steps of one check_old_members_async run and of its expel_old_user
\* calls
SweepSteps(s) ==
    \/ SweepNow(s)
    \/ SweepSelect(s)
    \/ SweepReadFail(s)
    \/ SweepLastCheck(s)
    \/ SweepCount(s)
    \/ SweepCall(s)
    \/ SweepEnd(s)
    \/ \E o \in PreCheckOutcomes : ExpelPreCheck(s, o)
    \/ \E ok \in BOOLEAN : ExpelBan(s, ok)
    \/ \E ok \in BOOLEAN : ExpelUnban(s, ok)
    \/ ExpelClock(s)
    \/ ExpelDb(s)
    \/ ExpelDbFail(s)
    \/ ExpelCountRead(s)
    \/ ExpelCountWrite(s)
    \/ ExpelNotifyTest(s)

Sweep(s, maxSweeps) ==
    \/ ManualTrigger(s, maxSweeps)
    \/ SweepSteps(s)

\* the requests of the platform to the webhook, for the members in keys
EventsB(keys, maxEvents) ==
    \/ \E k \in keys, old \in Statuses, new \in Statuses :
          Webhook(k, old, new, maxEvents)
    \/ WebhookEnter(maxEvents)
    \/ WebhookError

\* the loop of auto_check_members outside check_old_members_async
AutoLoop(maxSweeps) ==
    \/ AutoBegin
    \/ AutoLoopTest
    \/ AutoNextClock
    \/ AutoNextCheck
    \/ AutoWake(maxSweeps)
    \/ AutoCycleFail

\* the handler threads of the webhook
Handlers == \E w \in WorkerIds : Handler(w)

\* the thread auto_check_members: its loop and its sweeps
Periodic(maxSweeps) ==
    \/ AutoLoop(maxSweeps)
    \/ SweepSteps(AUTO)

\* the clock and the threads of the process, /check_members requests
\* included
ThreadsB(maxSweeps) ==
    \/ Tick
    \/ Handlers
    \/ AutoLoop(maxSweeps)
    \/ \E s \in Sweepers : Sweep(s, maxSweeps)

Next ==
    \/ Tick
    \/ EventsB(Keys, MaxEvents)
    \/ Handlers
    \/ Periodic(MaxSweeps)

\* webhook events for two members and one sweep of the thread
\* auto_check_members, interleaved
Spec == Init /\ [][Next]_vars

\* the process is stopped and started again: members.db stays, bot_status
\* and the threads are those of a fresh process, setup_webhook runs again
Restart(maxRestarts, ok) ==
    /\ used.restarts < maxRestarts
    /\ used' = [used EXCEPT !.restarts = @ + 1]
    /\ bot_status' = StartedStatus(ok)
    /\ workers' = [w \in ThreadIds |-> FreeWorker]
    /\ sw' = [s \in Sweepers |-> IdleSweep(s)]
    /\ stop_auto_check' = FALSE
    /\ UNCHANGED <<now, members, expulsions, ghost, admin_msgs>>

\* webhook events alone, one more of them, handled one after another
NextJoins ==
    \/ Tick
    \/ EventsB(Keys, MaxEvents + 1)
    \/ Handlers

SpecJoins == Init /\ [][NextJoins]_vars

\* one member, one event and one sweep, periodic or requested by
\* /check_members
NextSweep ==
    \/ EventsB({KeyList[1]}, MaxEvents - 1)
    \/ ThreadsB(MaxSweeps)

SpecSweep == Init /\ [][NextSweep]_vars

\* one member, one event and two sweeps: the periodic sweep and a requested
\* one can overlap
NextOverlap ==
    \/ EventsB({KeyList[1]}, MaxEvents - 1)
    \/ ThreadsB(MaxSweeps + 1)

SpecOverlap == Init /\ [][NextOverlap]_vars

\* one member, one event and three sweeps
NextRetry ==
    \/ EventsB({KeyList[1]}, MaxEvents - 1)
    \/ ThreadsB(MaxSweeps + 2)

SpecRetry == Init /\ [][NextRetry]_vars

\* one member, one event and the periodic sweep, with /start commands, the
\* notifications they arm and restarts of the process
NextAdmin ==
    \/ Tick
    \/ EventsB({KeyList[1]}, MaxEvents - 1)
    \/ Handlers
    \/ Periodic(MaxSweeps)
    \/ \E uid \in UserIds : WebhookCommand(uid)
    \/ \E uid \in UserIds : StartCommand(uid)
    \/ \E w \in WorkerIds, ok \in BOOLEAN : HandleNotify(w, ok)
    \/ \E ok \in BOOLEAN : ExpelNotify(AUTO, ok)
    \/ \E ok \in BOOLEAN : Restart(MaxRestarts, ok)

SpecAdmin == Init /\ [][NextAdmin]_vars

\* webhook events alone, their handlers failing at the store as often as
\* it takes to fill more than one /status slice
NextErrors ==
    \/ \E k \in Keys, old \in Statuses, new \in Statuses :
          Webhook(k, old, new, ERRORS_SHOWN + 1)
    \/ \E w \in WorkerIds : HandlerB(w, ERRORS_SHOWN + 1)

SpecErrors == Init /\ [][NextErrors]_vars

\* webhook events alone, the handler of one still running when the next
\* one arrives
NextThreads ==
    \/ Tick
    \/ \E k \in Keys, old \in Statuses, new \in Statuses :
          WebhookB(k, old, new, MaxEvents, MaxWorkers + 1)
    \/ WebhookEnter(MaxEvents)
    \/ WebhookError
    \/ Handlers

SpecThreads == Init /\ [][NextThreads]_vars

\* the periodic sweep alone, twice, and the events of one member: no
\* /check_members request
NextPeriodic ==
    \/ Tick
    \/ EventsB({KeyList[1]}, MaxEvents - 1)
    \/ Handlers
    \/ Periodic(MaxSweeps + 1)

\* time passes, the thread auto_check_members keeps being scheduled and its
\* platform and store calls return
SpecPeriodic ==
    /\ Init /\ [][NextPeriodic]_vars
    /\ WF_vars(Tick)
    /\ WF_vars(Periodic(MaxSweeps + 1))

\* the steps of the thread auto_check_members
AutoThread ==
    \/ Periodic(MaxSweeps)
    \/ AutoStop

\* one member, one event, the periodic sweep and /setup_webhook requests,
\* with app.run interrupted at some moment
NextStop ==
    \/ Tick
    \/ EventsB({KeyList[1]}, MaxEvents - 1)
    \/ Handlers
    \/ AutoThread
    \/ SetupWebhookRequest
    \/ \E ok \in BOOLEAN : SetupWebhookRoute(ok)
    \/ StopSignal

\* the thread auto_check_members keeps being scheduled and its platform and
\* store calls return
SpecStop == Init /\ [][NextStop]_vars /\ WF_vars(AutoThread)

----------------------------------------------------------------------------
(* Properties *)

RowCount(k) == Cardinality(RowsOf(members, k[1], k[2]))

RecordsOfKey(k) ==
    { i \in 1..Len(expulsions) : /\ expulsions[i].user_id = k[1]
                                 /\ expulsions[i].chat_id = k[2] }

\* the dwell of every row the table holds for k is at least the limit
DwellReached(k) ==
    \A i \in RowsOf(members, k[1], k[2]) :
        now - members[i].join_date >= TIME_LIMIT_SECONDS

\* expel_old_user issues ban_chat_member in this step
IssuesRemove(s) == \E ok \in BOOLEAN : ExpelBan(s, ok)

\* expel_old_user returns False in this step
ReturnsFalse(s) ==
    /\ sw[s].pc \in {"e_platform", "e_ban", "e_unban", "e_db"}
    /\ sw'[s].call.ret = "fail"

C1_RowTracksLast ==
    \A k \in Keys : HasRow(members, k) <=> ghost.last[k] \in {"JOIN", "REJOIN"}

C1_LeaveWithoutRow ==
    \A w \in WorkerIds :
        (HandleLeave(w) /\ ~HasRow(members, workers[w].key))
            => (members' = members /\ bot_status' = bot_status)

\* C1: applied one after another to a key, JOIN, LEAVE and expulsion leave a
\* row for the key exactly when the last of them was a JOIN; a LEAVE for a
\* key without a row changes neither the table nor the error list.
C1_LastEventDecidesRow == []C1_RowTracksLast /\ [][C1_LeaveWithoutRow]_vars

\* a key was expelled by a sweep and a LEAVE for it then found no row
C1_Witness ==
    \E k \in Keys : /\ ghost.last[k] = "LEAVE_NOOP"
                    /\ RecordsOfKey(k) # {}
                    /\ ~HasRow(members, k)

\* C2: one stay of a member (one row, one JOIN) gets at most one
\* ExpulsionRecord, also when sweeps overlap.
C2_OneRecordPerStay ==
    \A k \in Keys, j \in 0..MaxTime : Cardinality(RecordsOf(k, j)) <= 1

\* C3: whenever expel_old_user issues the platform remove call for a key or
\* deletes its row, the dwell of that key's row has reached the time limit.
C3_NoExpulsionBelowLimit ==
    [][\A s \in Sweepers :
          (IssuesRemove(s) \/ ExpelDb(s)) => DwellReached(sw[s].call.key)]_vars

C4_NoneDropped ==
    \A s \in Sweepers : sw[s].tried + Len(sw[s].todo) = sw[s].nover

C4_AllOverdueTaken ==
    \A s \in Sweepers :
        SweepSelect(s) =>
           sw'[s].nover = Cardinality({ i \in 1..Len(members) :
                              sw[s].t0 - members[i].join_date >= TIME_LIMIT_SECONDS })

\* C4: a sweep takes every row of its SELECT whose dwell, counted up to the
\* now of the sweep, has reached the limit, whatever its room, and each of them is handed to expel_old_user
\* or still ahead in the loop, whatever the earlier calls of the sweep
\* returned; at the end of the loop all of them have been handed over.
C4_EveryOverdueRowTried == []C4_NoneDropped /\ [][C4_AllOverdueTaken]_vars

\* a sweep calls expel_old_user again after a call of the same sweep failed
C4_Witness ==
    \E s \in Sweepers : /\ sw[s].failed >= 1
                        /\ sw[s].tried >= 2
                        /\ sw[s].pc = "e_platform"

\* C5: an expel_old_user call that starts when the stay already has its
\* ExpulsionRecord appends no further record.
C5_SecondCallAppendsNothing ==
    \A i \in 1..Len(ghost.hist) : ~ghost.hist[i].dup

\* C6: an expel_old_user call that returns False leaves the members table,
\* the expulsions log and total_expelled as they are and appends one entry
\* to bot_status["errors"].
C6_FailureRecordsError ==
    [][\A s \in Sweepers :
          ReturnsFalse(s) =>
             /\ members' = members
             /\ expulsions' = expulsions
             /\ bot_status'.total_expelled = bot_status.total_expelled
             /\ Len(bot_status'.errors) = Len(bot_status.errors) + 1]_vars

\* C7: a stay whose expulsion failed at the platform in one sweep and was
\* retried by later sweeps has exactly one ExpulsionRecord once a retry
\* has succeeded, never more.
C7_RetryWritesOneRecord ==
    \A f \in ghost.failed : Cardinality(RecordsOf(f.key, f.joined)) <= 1

\* the commit of a successful expel_old_user call: no row of the key is
\* left and the log has grown by exactly one record, of that key
CommitEffects(s) ==
    ExpelDb(s) =>
       /\ ~HasRow(members', sw[s].call.key)
       /\ Len(expulsions') = Len(expulsions) + 1
       /\ SubSeq(expulsions', 1, Len(expulsions)) = expulsions
       /\ expulsions'[Len(expulsions')].user_id = sw[s].call.key[1]
       /\ expulsions'[Len(expulsions')].chat_id = sw[s].call.key[2]

\* C8: every expel call that returns Success leaves no row of its key (the
\* DELETE is a no-op when a LEAVE has removed the row already), has appended
\* exactly one ExpulsionRecord of that key and has made total_expelled one
\* larger than it was.
C8_SuccessIncrementsByOne ==
    [][\A s \in Sweepers :
          /\ CommitEffects(s)
          /\ ExpelCountWrite(s) =>
                bot_status'.total_expelled = bot_status.total_expelled + 1]_vars

\* C9: the members table never holds two rows of one (user_id, chat_id).
C9_AtMostOneRow == \A k \in Keys : RowCount(k) <= 1

\* a JOIN was applied to a key that had a row
C9_Witness == \E k \in Keys : ghost.last[k] = "REJOIN" /\ RowCount(k) = 1

\* C10: a JOIN leaves exactly one row of its key, with the join_date this
\* application read from the clock, and changes no other row and no record.
C10_JoinUpserts ==
    [][\A w \in WorkerIds :
          HandleJoin(w) =>
             LET k == workers[w].key IN
               /\ Cardinality(RowsOf(members', k[1], k[2])) = 1
               /\ \A i \in RowsOf(members', k[1], k[2]) : members'[i].join_date = workers[w].jd
               /\ DeleteMember(members', k[1], k[2]) = DeleteMember(members, k[1], k[2])
               /\ expulsions' = expulsions]_vars

\* the same JOIN was applied again, later, with another row in the table
C10_Witness ==
    \E k \in Keys :
        /\ ghost.last[k] = "REJOIN"
        /\ \A i \in RowsOf(members, k[1], k[2]) : members[i].join_date > 0
        /\ Len(members) >= 2

\* the class the specification gives to a transition
C11_ClassOf(old, new) ==
    CASE old \in {"unknown", "left", "kicked"} /\ new = "member" -> "JOIN"
      [] old = "member" /\ new \in {"left", "kicked"} -> "LEAVE"
      [] OTHER -> "IGNORED"

\* C11: the class the handler gives to a transition (old, new) is JOIN when
\* old is absent (unknown), left or kicked and new is member, LEAVE when old
\* is member and new is left or kicked, IGNORED for every other pair; every
\* running handler carries exactly one of the three, and handling an IGNORED
\* transition changes neither the members table nor the log.
C11_TransitionClasses ==
    /\ [](\A old \in Statuses, new \in Statuses :
             Classify(old, new) = C11_ClassOf(old, new))
    /\ [](\A w \in WorkerIds :
             workers[w].pc # "free" => workers[w].kind \in {"JOIN", "LEAVE", "IGNORED"})
    /\ [][\A w \in WorkerIds :
             HandleIgnored(w) =>
                 (members' = members /\ expulsions' = expulsions)]_vars

\* an IGNORED transition is being handled for a key that has a row
C11_Witness ==
    \E w \in WorkerIds : /\ workers[w].pc = "start"
                         /\ workers[w].kind = "IGNORED"
                         /\ HasRow(members, workers[w].key)

\* C12: when expel_old_user has returned, the member it removed with
\* ban_chat_member has been unbanned by the same call.
C12_NeverLeftBanned ==
    \A s \in Sweepers : sw[s].call.ret # "none" => ~sw[s].call.banned

\* C13: whatever get_chat_member yields, expel_old_user goes on to
\* ban_chat_member: every step that ends the permission pre-check of a call
\* takes the call to its remove call.
C13_PreCheckAdvisory ==
    [][\A s \in Sweepers :
          (sw[s].pc = "e_platform" /\ sw'[s].pc # "e_platform")
              => sw'[s].pc = "e_ban"]_vars

\* C14: admin_notified is false when the process starts and after every
\* restart, only a /start of the user ADMIN_CHAT_ID makes it true, and no
\* message reaches the admin chat in a step that starts with it false.
C14_SilentByDefault ==
    /\ ~bot_status.admin_notified
    /\ [][used'.restarts # used.restarts => ~bot_status'.admin_notified]_vars
    /\ [][(bot_status'.admin_notified /\ ~bot_status.admin_notified)
             => StartCommand(ADMIN_CHAT_ID)]_vars
    /\ [][\A uid \in UserIds \ {ADMIN_CHAT_ID} :
             StartCommand(uid) =>
                bot_status'.admin_notified = bot_status.admin_notified]_vars
    /\ [][admin_msgs' # admin_msgs => bot_status.admin_notified]_vars

\* the admin was notified of a JOIN before a restart; after it
\* expel_old_user has committed the expulsion of that member and is at its
\* test of admin_notified, about to return without a message
C14_Witness ==
    /\ used.restarts >= 1
    /\ ~bot_status.admin_notified
    /\ admin_msgs # << >>
    /\ sw[AUTO].pc = "e_if"
    /\ RecordsOfKey(sw[AUTO].call.key) # {}

\* C15: once stop_auto_check is set the wait of auto_check_members never
\* times out into a new cycle; the thread ends only between cycles (at the
\* test of its loop or in its wait), a loop with overdue rows ahead goes on
\* to its next expel_old_user call; auto_check_running is true from the
\* first statement of the thread to its end; and the thread ends, with
\* auto_check_running false.
C15_CooperativeStop ==
    /\ [][(sw[AUTO].pc = "wait" /\ sw'[AUTO].pc = "read") => ~stop_auto_check]_vars
    /\ [][(sw'[AUTO].pc = "done" /\ sw[AUTO].pc # "done")
             => sw[AUTO].pc \in {"top", "wait"}]_vars
    /\ [][(stop_auto_check /\ sw[AUTO].pc = "loop" /\ sw[AUTO].todo # << >>)
             => sw'[AUTO].pc \in {"loop", "e_platform"}]_vars
    /\ [](sw[AUTO].pc \in {"begin", "done"} <=> ~bot_status.auto_check_running)
    /\ stop_auto_check ~> (sw[AUTO].pc = "done" /\ ~bot_status.auto_check_running)

\* the stop signal is set while a cycle of auto_check_members is between its
\* platform calls and its commit
C15_Witness == stop_auto_check /\ sw[AUTO].pc = "e_db"

\* C16: a step changes the expulsions log only by the commit of
\* expel_old_user, which appends one record behind the records already there
\* and leaves those as they are; a call that returns False appends nothing.
C16_LogAppendOnly ==
    /\ [][expulsions' # expulsions =>
             /\ \E s \in Sweepers : ExpelDb(s)
             /\ Len(expulsions') = Len(expulsions) + 1
             /\ SubSeq(expulsions', 1, Len(expulsions)) = expulsions]_vars
    /\ [][\A s \in Sweepers : ReturnsFalse(s) => expulsions' = expulsions]_vars

\* one sweep has written two records and is back at the end of its loop
C16_Witness ==
    /\ Len(expulsions) >= 2
    /\ \E s \in Sweepers : sw[s].pc = "loop" /\ sw[s].tried >= 2

\* C17: bot_status["errors"] never holds more than ten entries: it is the
\* slice of the most recent ten that /status returns.
C17_ErrorsRingOfTen ==
    /\ Len(bot_status.errors) <= ERRORS_SHOWN
    /\ StatusErrors(bot_status) = bot_status.errors

\* C18 as stated: when a sweep ends, last_check is that sweep's now,
\* members_count the number of rows it read and next_check that now plus
\* the interval.
C18_SweepEndsWithState ==
    [][\A s \in Sweepers :
          SweepEnd(s) =>
             /\ bot_status'.last_check = sw[s].t0
             /\ bot_status'.members_count = sw[s].nrows
             /\ bot_status'.next_check = NextCheckTime(sw[s].t0)]_vars

\* C18, amended: after its SELECT every sweep, periodic or requested,
\* writes into last_check the now it read when it began and then into
\* members_count the number of rows of its SELECT, in two steps, before it
\* handles any row; last_check never lies ahead of the clock; next_check is
\* written by auto_check_members alone, at the top of its loop before it
\* waits, as a clock it has read there plus the interval.
C18_ReadUpdatesState ==
    /\ [][\A s \in Sweepers :
             SweepLastCheck(s) =>
                /\ bot_status'.last_check = sw[s].t0
                /\ bot_status'.members_count = bot_status.members_count
                /\ bot_status'.next_check = bot_status.next_check
                /\ sw'[s].pc = "rows"]_vars
    /\ [][\A s \in Sweepers :
             SweepCount(s) =>
                /\ bot_status'.members_count = sw[s].nrows
                /\ bot_status'.last_check = bot_status.last_check
                /\ bot_status'.next_check = bot_status.next_check]_vars
    /\ [](\A s \in Sweepers :
             sw[s].pc \in {"read", "select", "status", "rows"}
                => (sw[s].tried = 0 /\ sw[s].call = NoCall))
    /\ [](bot_status.last_check <= now)
    /\ [][bot_status'.next_check # bot_status.next_check =>
             /\ sw[AUTO].pc = "setnext"
             /\ sw'[AUTO].pc = "wait"
             /\ bot_status'.next_check = sw[AUTO].nc]_vars
    /\ [](sw[AUTO].pc = "setnext" =>
             \E t \in 0..now : sw[AUTO].nc = NextCheckTime(t))

\* a requested sweep is at the end of its loop after a failed call:
\* last_check is its now, next_check is not that now plus the interval
C18_Witness ==
    \E s \in Sweepers \ {AUTO} :
        /\ sw[s].pc = "loop" /\ sw[s].todo = << >>
        /\ sw[s].failed >= 1
        /\ bot_status.last_check = sw[s].t0
        /\ bot_status.next_check # NextCheckTime(sw[s].t0)

\* the row that the table holds for the key of the call of s is not the row
\* the sweep read: a JOIN has replaced it since
RowIsFresh(s) ==
    \E i \in RowsOf(members, sw[s].call.key[1], sw[s].call.key[2]) :
        members[i].join_date > sw[s].call.joined

\* C19: when a JOIN has replaced the row a sweep read, the expulsion of that
\* sweep neither issues the remove call nor deletes the fresh row while the
\* dwell counted from the fresh join_date is below the limit.
C19_FreshJoinSurvivesSweep ==
    [][\A s \in Sweepers :
          (RowIsFresh(s) /\ ~DwellReached(sw[s].call.key))
              => /\ ~IssuesRemove(s)
                 /\ (ExpelDb(s) => HasRow(members', sw[s].call.key))]_vars

\* C20: once the handler threads of the events received for a key have all
\* finished, none of them having failed, the key has a row exactly when the
\* last JOIN or LEAVE the webhook received for it was a JOIN.
C20_ArrivalOrderDecides ==
    \A k \in Keys :
        (/\ \A w \in WorkerIds : workers[w].pc = "free"
         /\ bot_status.errors = << >>
         /\ expulsions = << >>
         /\ ghost.recv[k] # "none")
            => (HasRow(members, k) <=> ghost.recv[k] = "JOIN")

\* the sweeping threads whose expel_old_user call is awaiting the platform
ExpelInFlight ==
    { s \in Sweepers : sw[s].pc \in {"e_platform", "e_ban", "e_unban"} }

\* C21: counting the periodic sweep and the requested ones together, at
\* most one expel_old_user call is at its platform calls at any moment.
C21_OneExpelInFlight == Cardinality(ExpelInFlight) <= 1

\* C22: time_in_group_seconds of every record is not negative and is the
\* time from the join_date of the row the sweep read to the expelled_date
\* of the record.
C22_DwellUpToExpulsion ==
    \A i \in 1..Len(expulsions) :
        /\ expulsions[i].time_in_group_seconds >= 0
        /\ expulsions[i].time_in_group_seconds =
              expulsions[i].expelled_date - ghost.hist[i].joined

\* C23: whatever the old status (restricted and administrator too; member
\* to member is no transition), an update whose new status is member is
\* handled as a JOIN, which upserts the row of the key with join_date now.
C23_AnyTransitionToMemberJoins ==
    [][\A k \in Keys, old \in Statuses \ {"member"} :
          Webhook(k, old, "member", MaxEvents) =>
              workers'[LowestFree(MaxWorkers)].kind = "JOIN"]_vars

\* a cycle of auto_check_members has failed at its SELECT and the thread
\* is back in its loop, at the test, at the write of next_check or in the
\* wait; the run has a cycle left
C24_WaitingAfterError ==
    /\ \E i \in 1..Len(bot_status.errors) : bot_status.errors[i] = "Error verificacion"
    /\ sw[AUTO].pc \in {"top", "clock", "setnext", "wait"}
    /\ ~stop_auto_check
    /\ used.sweeps < MaxSweeps + 1

\* C24: a sweep whose SELECT raises hands no row to expel_old_user, changes
\* neither table and appends the error to bot_status["errors"]; the thread
\* auto_check_members goes back to the test of its loop, still running,
\* and, the stop signal not being set, starts another sweep after the
\* interval.
C24_SweepErrorResumes ==
    /\ [][\A s \in Sweepers :
             SweepReadFail(s) =>
                /\ Len(bot_status'.errors) = Len(bot_status.errors) + 1
                /\ bot_status'.errors[Len(bot_status'.errors)] = "Error verificacion"
                /\ members' = members /\ expulsions' = expulsions
                /\ sw'[s].todo = << >> /\ sw'[s].call = NoCall
                /\ s = AUTO => /\ sw'[s].pc = "top"
                               /\ bot_status'.auto_check_running]_vars
    /\ C24_WaitingAfterError ~> (sw[AUTO].pc = "read")

\* the cycle after a failed one has taken an overdue row
C24_Witness ==
    /\ \E i \in 1..Len(bot_status.errors) : bot_status.errors[i] = "Error verificacion"
    /\ used.sweeps = MaxSweeps + 1
    /\ sw[AUTO].pc = "e_platform"

\* C25: a send_message to the admin that fails changes neither table nor
\* bot_status: the handler of the JOIN just ends, and expel_old_user returns
\* True; a call that has reached its notification has committed its record
\* and counted it.
C25_NotificationFailureDropped ==
    /\ [][\A w \in WorkerIds :
             HandleNotify(w, FALSE) =>
                /\ members' = members /\ expulsions' = expulsions
                /\ bot_status' = bot_status
                /\ workers'[w] = FreeWorker]_vars
    /\ [][\A s \in Sweepers :
             ExpelNotify(s, FALSE) =>
                /\ members' = members /\ expulsions' = expulsions
                /\ bot_status' = bot_status
                /\ sw'[s].call.ret = "ok"]_vars
    /\ [](\A s \in Sweepers :
             sw[s].call.notif = "failed" =>
                /\ sw[s].call.ret = "ok"
                /\ RecordsOfKey(sw[s].call.key) # {}
                /\ bot_status.total_expelled >= 1)

\* an expulsion whose notification failed has returned True, and the
\* notification of a JOIN has reached the admin
C25_Witness ==
    /\ \E s \in Sweepers : sw[s].call.notif = "failed" /\ sw[s].call.ret = "ok"
    /\ \E i \in 1..Len(admin_msgs) : admin_msgs[i].kind = "join"

\* C26: a handler whose store access raises appends one entry to
\* bot_status["errors"] and ends: the members table and the log are as they
\* were, and the event is not handled again.
C26_HandlerErrorDropsEvent ==
    [][\A w \in WorkerIds :
          HandleStoreError(w) =>
             /\ members' = members /\ expulsions' = expulsions
             /\ bot_status'.errors =
                   Append(bot_status.errors, "Error en handle_chat_member_update")
             /\ workers'[w] = FreeWorker
             /\ used' = used
             /\ ghost' = ghost]_vars

\* the JOIN received for a key was dropped: the error is recorded, no
\* handler is left and the key has no row
C26_Witness ==
    /\ \E i \in 1..Len(bot_status.errors) :
          bot_status.errors[i] = "Error en handle_chat_member_update"
    /\ \A w \in WorkerIds : workers[w].pc = "free"
    /\ \E k \in Keys : /\ ghost.recv[k] = "JOIN"
                       /\ ghost.last[k] = "none"
                       /\ ~HasRow(members, k)

\* C27: when the process has been started again, members_count is the
\* number of rows of the members table and total_expelled the number of
\* records of the log, before any event or sweep.
C27_RestartRebuildsCounts ==
    [][used'.restarts # used.restarts =>
          /\ bot_status'.members_count = Len(members')
          /\ bot_status'.total_expelled = Len(expulsions')]_vars

\* C28: the DELETE on members and the INSERT into expulsions of
\* expel_old_user take effect in one step or not at all: the commit leaves
\* no row of the key and one more record, of that key; a store access that
\* fails, or a process that ends before the commit, changes neither table;
\* the log grows only in a step that leaves no row of the key; and a key
\* whose last committed change is an expulsion has a record and no row.
C28_DeleteAndRecordTogether ==
    /\ [][\A s \in Sweepers :
             (sw[s].pc = "e_db" /\ sw'[s].pc # "e_db") =>
                \/ /\ members' = members /\ expulsions' = expulsions
                   /\ sw'[s].call.ret # "ok"
                \/ /\ ~HasRow(members', sw[s].call.key)
                   /\ Len(expulsions') = Len(expulsions) + 1
                   /\ expulsions'[Len(expulsions')].user_id = sw[s].call.key[1]
                   /\ expulsions'[Len(expulsions')].chat_id = sw[s].call.key[2]
                   /\ sw'[s].pc = "e_rd"]_vars
    /\ [][Len(expulsions') # Len(expulsions) =>
             \E s \in Sweepers : /\ sw[s].pc = "e_db"
                                 /\ ~HasRow(members', sw[s].call.key)]_vars
    /\ [](\A k \in Keys :
             ghost.last[k] = "EXPELLED" =>
                (RecordsOfKey(k) # {} /\ ~HasRow(members, k)))

\* the store access of the only expel_old_user call of a run has failed:
\* the row is still there and the log has no record of the key
C28_Witness ==
    /\ used.events = 1
    /\ \E i \in 1..Len(bot_status.errors) : bot_status.errors[i] = "Error expulsando"
    /\ \E s \in Sweepers :
          /\ sw[s].call.ret = "fail"
          /\ [key |-> sw[s].call.key, joined |-> sw[s].call.joined] \notin ghost.failed
          /\ HasRow(members, sw[s].call.key)
          /\ RecordsOfKey(sw[s].call.key) = {}

====
